---- MODULE Spec2Model ----
(***************************************************************************)
(* The unstake liquidity pool of src/lp_pool.rs over the fixed-point       *)
(* quantities of src/types.rs.                                             *)
(*                                                                         *)
(* Every quantity is its raw scaled integer (types.rs:72-78).  Uint is an  *)
(* alias in the source (types.rs:8); the model runs the pool under two     *)
(* instantiations of it, recorded in uint_bits:                            *)
(*   - UintBits (u64): every modelled value is below 2^31, so no product   *)
(*     or sum of two of them leaves the 64-bit range; this is the exact    *)
(*     behaviour of the u64 build on these values;                         *)
(*   - NarrowBits: a narrow unsigned integer in which the overflows of     *)
(*     the u64 build happen at values small enough to enumerate.           *)
(* A Rust build either traps on integer overflow (overflow-checks on, the  *)
(* dev profile) or wraps modulo 2^w (the release profile); the build is    *)
(* recorded in overflow_checks.  A division by zero traps in every build.  *)
(***************************************************************************)
EXTENDS Integers, Sequences, FiniteSets, TLC

VARIABLES
  price, token_amount, st_token_amount, lp_token_amount,
  liquidity_target, min_fee, max_fee,   \* the seven fields of LpPool
  uint_bits,        \* width of Uint in this build
  overflow_checks,  \* TRUE: arithmetic overflow traps; FALSE: it wraps
  panicked,         \* a call has trapped: the thread unwound
  last,             \* the most recent call: its argument, its result, the balances it found
  calls,            \* number of calls that returned Ok so far
  story             \* progress along the calls of tests::story_example, -1 once left

pool == <<price, token_amount, st_token_amount, lp_token_amount,
          liquidity_target, min_fee, max_fee>>
build == <<uint_bits, overflow_checks>>
vars == <<pool, build, panicked, last, calls, story>>

----------------------------------------------------------------------------
(* Bounds of the model *)

\* width of the narrow instantiation of Uint
NarrowBits == 26
\* calls returning Ok explored from init in the narrow instantiation
MaxCalls == 4
\* calls returning Ok explored from init in the u64 instantiation
MaxWideCalls == 5

----------------------------------------------------------------------------
(* types.rs *)

PRECISION == 6
UintBits == 64

RECURSIVE Pow(_, _)
Pow(b, n) == IF n = 0 THEN 1 ELSE b * Pow(b, n - 1)

SCALE == Pow(10, PRECISION)

Min(a, b) == IF a <= b THEN a ELSE b
Max(a, b) == IF a >= b THEN a ELSE b

\* <<q, r>> with a * b = q * c + r and 0 <= r < c, for c > 0.  The product is
\* formed only when it fits the 32-bit integers of TLC; otherwise it is built
\* from a * (b \div 2), which needs 3 * c to fit.
RECURSIVE MulDivMod(_, _, _)
MulDivMod(a, b, c) ==
  IF b = 0 \/ a <= 2147483647 \div b THEN <<(a * b) \div c, (a * b) % c>>
  ELSE LET h == MulDivMod(a, b \div 2, c)
           t == 2 * h[2] + (b % 2) * (a % c)
       IN <<2 * h[1] + (b % 2) * (a \div c) + t \div c, t % c>>

\* the mathematical floor(a * b / c)
FloorMulDiv(a, b, c) == MulDivMod(a, b, c)[1]

Narrow == uint_bits # UintBits
\* 2^w of the narrow instantiation
Modulus == Pow(2, NarrowBits)

\* a * b does not fit in Uint (checked_mul returns None; `*` overflows)
MulOverflows(a, b) ==
  IF Narrow THEN MulDivMod(a, b, Modulus)[1] > 0 ELSE FALSE
\* a.wrapping_mul(b) / c, which is a * b / c when the product fits; c > 0
WrapMulDiv(a, b, c) ==
  IF Narrow THEN MulDivMod(a, b, Modulus)[2] \div c ELSE FloorMulDiv(a, b, c)
\* a + b does not fit in Uint
AddOverflows(a, b) == IF Narrow THEN a + b >= Modulus ELSE FALSE
WrapAdd(a, b) == IF Narrow THEN (a + b) % Modulus ELSE a + b
\* a - b is below zero
SubUnderflows(a, b) == b > a
WrapSub(a, b) == IF b <= a THEN a - b ELSE (Modulus - b) + a

\* an overflow or underflow that this build turns into a panic
Traps(flag) == overflow_checks /\ flag

----------------------------------------------------------------------------
(* lp_pool.rs: the outcome of one call on the current pool.  An outcome    *)
(* carries the result (status, out, out2), the balances the call leaves    *)
(* behind (token, st, lp) and what happened to its arithmetic: ovf, an     *)
(* unchecked multiplication or addition left Uint; unf, a subtraction went *)
(* below zero; dz, a division by zero.                                      *)

Errors == {"NoTokensProvided", "TokenAmountTooBig", "NotEnoughTokens",
           "WithdrawCalculationOverflow", "ZeroTokensAsArgument",
           "PoolNotEnoughTokens"}

Outcome(status, out, out2, t, s, l, ovf, unf, dz) ==
  [status |-> status, out |-> out, out2 |-> out2,
   token |-> t, st |-> s, lp |-> l, ovf |-> ovf, unf |-> unf, dz |-> dz]

\* return Err(e): no field has been assigned
Err(e, a, b, ovf) ==
  Outcome(e, a, b, token_amount, st_token_amount, lp_token_amount, ovf, FALSE, FALSE)

\* the thread panics with the balances as the call has left them so far
Panic(t, s, l, ovf, unf, dz) == Outcome("Panic", 0, 0, t, s, l, ovf, unf, dz)

\* fn total_val: [v, ovf, panic]
total_val ==
  LET o1 == MulOverflows(st_token_amount, price)
      staked_value == WrapMulDiv(st_token_amount, price, SCALE)
      o2 == AddOverflows(token_amount, staked_value)
  IN IF Traps(o1) THEN [v |-> 0, ovf |-> TRUE, panic |-> TRUE]
     ELSE IF Traps(o2) THEN [v |-> 0, ovf |-> TRUE, panic |-> TRUE]
     ELSE [v |-> WrapAdd(token_amount, staked_value), ovf |-> o1 \/ o2, panic |-> FALSE]

\* fee without the lower clamp to min_fee
fee_without_min(amount_after) ==
  LET u1 == SubUnderflows(max_fee, min_fee)
      d == WrapSub(max_fee, min_fee)
      o2 == MulOverflows(d, amount_after)
      rhs == Min(WrapMulDiv(d, amount_after, liquidity_target), max_fee)
      u3 == SubUnderflows(max_fee, rhs)
      current_percentage == WrapSub(max_fee, rhs)
  IN IF Traps(u1)
       THEN [v |-> 0, ovf |-> FALSE, unf |-> TRUE, dz |-> FALSE, panic |-> TRUE]
     ELSE IF Traps(o2)
       THEN [v |-> 0, ovf |-> TRUE, unf |-> u1, dz |-> FALSE, panic |-> TRUE]
     ELSE IF liquidity_target = 0
       THEN [v |-> 0, ovf |-> o2, unf |-> u1, dz |-> TRUE, panic |-> TRUE]
     ELSE IF Traps(u3)
       THEN [v |-> 0, ovf |-> o2, unf |-> TRUE, dz |-> FALSE, panic |-> TRUE]
     ELSE [v |-> current_percentage, ovf |-> o2, unf |-> u1 \/ u3, dz |-> FALSE,
           panic |-> FALSE]

\* fn fee: [v, ovf, unf, dz, panic]
fee(amount_after) ==
  LET u1 == SubUnderflows(max_fee, min_fee)
      d == WrapSub(max_fee, min_fee)
      o2 == MulOverflows(d, amount_after)
      rhs == Min(WrapMulDiv(d, amount_after, liquidity_target), max_fee)
      u3 == SubUnderflows(max_fee, rhs)
      current_percentage == Max(WrapSub(max_fee, rhs), min_fee)
  IN IF Traps(u1)
       THEN [v |-> 0, ovf |-> FALSE, unf |-> TRUE, dz |-> FALSE, panic |-> TRUE]
     ELSE IF Traps(o2)
       THEN [v |-> 0, ovf |-> TRUE, unf |-> u1, dz |-> FALSE, panic |-> TRUE]
     ELSE IF liquidity_target = 0
       THEN [v |-> 0, ovf |-> o2, unf |-> u1, dz |-> TRUE, panic |-> TRUE]
     ELSE IF Traps(u3)
       THEN [v |-> 0, ovf |-> o2, unf |-> TRUE, dz |-> FALSE, panic |-> TRUE]
     ELSE [v |-> current_percentage, ovf |-> o2, unf |-> u1 \/ u3, dz |-> FALSE,
           panic |-> FALSE]

\* lines 61-66 of add_liquidity: the two balance additions and the return
add_commit(token_amount_in, minted, ovf0) ==
  LET o1 == AddOverflows(token_amount, token_amount_in)
      t1 == WrapAdd(token_amount, token_amount_in)
      o2 == AddOverflows(lp_token_amount, minted)
  IN IF Traps(o1)
       THEN Panic(token_amount, st_token_amount, lp_token_amount, TRUE, FALSE, FALSE)
     ELSE IF Traps(o2)
       THEN Panic(t1, st_token_amount, lp_token_amount, TRUE, FALSE, FALSE)
     ELSE Outcome("Ok", minted, 0, t1, st_token_amount,
                  WrapAdd(lp_token_amount, minted), ovf0 \/ o1 \/ o2, FALSE, FALSE)

\* pub fn add_liquidity
add_liquidity(token_amount_in) ==
  IF token_amount_in = 0 THEN Err("NoTokensProvided", 0, 0, FALSE)
  ELSE IF lp_token_amount = 0 THEN add_commit(token_amount_in, token_amount_in, FALSE)
  ELSE IF MulOverflows(lp_token_amount, token_amount_in)
    THEN Err("TokenAmountTooBig", 0, 0, FALSE)
  ELSE LET tv == total_val
       IN IF tv.panic
            THEN Panic(token_amount, st_token_amount, lp_token_amount, TRUE, FALSE, FALSE)
          ELSE IF tv.v = 0
            THEN Panic(token_amount, st_token_amount, lp_token_amount, tv.ovf, FALSE, TRUE)
          ELSE add_commit(token_amount_in,
                          WrapMulDiv(lp_token_amount, token_amount_in, tv.v), tv.ovf)

\* remove_liquidity without the subtraction from st_token_amount (line 97)
remove_commit_keeps_staked(lp_amount_out, token_out, staked_out) ==
  Outcome("Ok", token_out, staked_out, WrapSub(token_amount, token_out),
          st_token_amount, WrapSub(lp_token_amount, lp_amount_out),
          FALSE, FALSE, FALSE)

\* lines 96-100 of remove_liquidity: the three balance subtractions and the return
remove_commit(lp_amount_out, token_out, staked_out) ==
  LET u1 == SubUnderflows(token_amount, token_out)
      t1 == WrapSub(token_amount, token_out)
      u2 == SubUnderflows(st_token_amount, staked_out)
      s1 == WrapSub(st_token_amount, staked_out)
      u3 == SubUnderflows(lp_token_amount, lp_amount_out)
  IN IF Traps(u1)
       THEN Panic(token_amount, st_token_amount, lp_token_amount, FALSE, TRUE, FALSE)
     ELSE IF Traps(u2)
       THEN Panic(t1, st_token_amount, lp_token_amount, FALSE, TRUE, FALSE)
     ELSE IF Traps(u3)
       THEN Panic(t1, s1, lp_token_amount, FALSE, TRUE, FALSE)
     ELSE Outcome("Ok", token_out, staked_out, t1, s1,
                  WrapSub(lp_token_amount, lp_amount_out), FALSE, u1 \/ u2 \/ u3, FALSE)

\* remove_liquidity burning the LP tokens before its overflow checks
remove_liquidity_burns_first(lp_amount_out) ==
  IF lp_amount_out > lp_token_amount
    THEN Err("NotEnoughTokens", lp_amount_out, lp_token_amount, FALSE)
  ELSE IF MulOverflows(token_amount, lp_amount_out)
          \/ MulOverflows(st_token_amount, lp_amount_out)
    THEN Outcome("WithdrawCalculationOverflow", 0, 0, token_amount, st_token_amount,
                 lp_token_amount - lp_amount_out, FALSE, FALSE, FALSE)
  ELSE IF lp_token_amount = 0
    THEN Panic(token_amount, st_token_amount, lp_token_amount, FALSE, FALSE, TRUE)
  ELSE remove_commit(lp_amount_out,
                     WrapMulDiv(token_amount, lp_amount_out, lp_token_amount),
                     WrapMulDiv(st_token_amount, lp_amount_out, lp_token_amount))

\* remove_liquidity without the check of lines 78-83
remove_liquidity_unchecked(lp_amount_out) ==
  IF MulOverflows(token_amount, lp_amount_out)
    THEN Err("WithdrawCalculationOverflow", 0, 0, FALSE)
  ELSE IF lp_token_amount = 0
    THEN Panic(token_amount, st_token_amount, lp_token_amount, FALSE, FALSE, TRUE)
  ELSE IF MulOverflows(st_token_amount, lp_amount_out)
    THEN Err("WithdrawCalculationOverflow", 0, 0, FALSE)
  ELSE remove_commit(lp_amount_out,
                     WrapMulDiv(token_amount, lp_amount_out, lp_token_amount),
                     WrapMulDiv(st_token_amount, lp_amount_out, lp_token_amount))

\* pub fn remove_liquidity
remove_liquidity(lp_amount_out) ==
  IF lp_amount_out > lp_token_amount
    THEN Err("NotEnoughTokens", lp_amount_out, lp_token_amount, FALSE)
  ELSE IF MulOverflows(token_amount, lp_amount_out)
    THEN Err("WithdrawCalculationOverflow", 0, 0, FALSE)
  ELSE IF lp_token_amount = 0
    THEN Panic(token_amount, st_token_amount, lp_token_amount, FALSE, FALSE, TRUE)
  ELSE IF MulOverflows(st_token_amount, lp_amount_out)
    THEN Err("WithdrawCalculationOverflow", 0, 0, FALSE)
  ELSE remove_commit(lp_amount_out,
                     WrapMulDiv(token_amount, lp_amount_out, lp_token_amount),
                     WrapMulDiv(st_token_amount, lp_amount_out, lp_token_amount))

\* swap minting LP tokens for the staked tokens it takes in
swap_commit_mints(swap_amount, amount_out_before_fees, f, ovf0) ==
  Outcome("Ok", WrapMulDiv(amount_out_before_fees, WrapSub(SCALE, f.v), SCALE), 0,
          WrapSub(token_amount,
                  WrapMulDiv(amount_out_before_fees, WrapSub(SCALE, f.v), SCALE)),
          WrapAdd(st_token_amount, swap_amount),
          WrapAdd(lp_token_amount, swap_amount), ovf0, f.unf, FALSE)

\* fn apply_fee (types.rs) and lines 123-128 of swap
swap_commit(swap_amount, amount_out_before_fees, f, ovf0) ==
  LET u1 == SubUnderflows(SCALE, f.v)
      k == WrapSub(SCALE, f.v)
      o2 == MulOverflows(amount_out_before_fees, k)
      amount_out == WrapMulDiv(amount_out_before_fees, k, SCALE)
      u3 == SubUnderflows(token_amount, amount_out)
      t1 == WrapSub(token_amount, amount_out)
      o4 == AddOverflows(st_token_amount, swap_amount)
      ovf == ovf0 \/ f.ovf
      unf == f.unf
  IN IF Traps(u1)
       THEN Panic(token_amount, st_token_amount, lp_token_amount, ovf, TRUE, FALSE)
     ELSE IF Traps(o2)
       THEN Panic(token_amount, st_token_amount, lp_token_amount, TRUE, unf, FALSE)
     ELSE IF Traps(u3)
       THEN Panic(token_amount, st_token_amount, lp_token_amount, ovf, TRUE, FALSE)
     ELSE IF Traps(o4)
       THEN Panic(t1, st_token_amount, lp_token_amount, TRUE, unf, FALSE)
     ELSE Outcome("Ok", amount_out, 0, t1, WrapAdd(st_token_amount, swap_amount),
                  lp_token_amount, ovf \/ o2 \/ o4, unf \/ u1 \/ u3, FALSE)

\* swap without its sufficiency check
swap_insufficient_omitted(amount_out_before_fees) == FALSE

\* the check of lines 114-119 of swap: the pool cannot pay the pre-fee amount
swap_insufficient(amount_out_before_fees) == amount_out_before_fees > token_amount

\* swap without the zero check of lines 109-111
swap_accepts_zero(swap_amount) ==
  LET o1 == MulOverflows(swap_amount, price)
      amount_out_before_fees == WrapMulDiv(swap_amount, price, SCALE)
  IN IF Traps(o1)
       THEN Panic(token_amount, st_token_amount, lp_token_amount, TRUE, FALSE, FALSE)
     ELSE IF swap_insufficient(amount_out_before_fees)
       THEN Err("PoolNotEnoughTokens", amount_out_before_fees, token_amount, o1)
     ELSE LET f == fee(WrapSub(token_amount, amount_out_before_fees))
          IN IF f.panic
               THEN Panic(token_amount, st_token_amount, lp_token_amount,
                          o1 \/ f.ovf, f.unf, f.dz)
             ELSE swap_commit(swap_amount, amount_out_before_fees, f, o1)

\* pub fn swap
swap(swap_amount) ==
  IF swap_amount = 0 THEN Err("ZeroTokensAsArgument", 0, 0, FALSE)
  ELSE LET o1 == MulOverflows(swap_amount, price)
           \* fn into_token_amount (types.rs)
           amount_out_before_fees == WrapMulDiv(swap_amount, price, SCALE)
       IN IF Traps(o1)
            THEN Panic(token_amount, st_token_amount, lp_token_amount, TRUE, FALSE, FALSE)
          ELSE IF swap_insufficient(amount_out_before_fees)
            THEN Err("PoolNotEnoughTokens", amount_out_before_fees, token_amount, o1)
          ELSE LET u2 == SubUnderflows(token_amount, amount_out_before_fees)
                   f == fee(WrapSub(token_amount, amount_out_before_fees))
               IN IF Traps(u2)
                    THEN Panic(token_amount, st_token_amount, lp_token_amount,
                               o1, TRUE, FALSE)
                  ELSE IF f.panic
                    THEN Panic(token_amount, st_token_amount, lp_token_amount,
                               o1 \/ f.ovf, u2 \/ f.unf, f.dz)
                  ELSE swap_commit(swap_amount, amount_out_before_fees,
                                   [f EXCEPT !.unf = @ \/ u2], o1)

----------------------------------------------------------------------------
(* The pools and the arguments explored *)

\* the fixture story_example_pool: price 1.5, fees 0.001 .. 0.09, target 90
story_example_pool ==
  [price |-> 1500000, min_fee |-> 1000, max_fee |-> 90000, liquidity_target |-> 90000000]

\* the pools of the narrow builds: a target of a few raw units, a price
\* above, below and at 1.0, fees up to 100%
NarrowPools ==
  {[price |-> 1500000, min_fee |-> 1000, max_fee |-> 90000, liquidity_target |-> 60],
   [price |-> 500000, min_fee |-> 0, max_fee |-> 90000, liquidity_target |-> 100],
   [price |-> SCALE, min_fee |-> 0, max_fee |-> SCALE, liquidity_target |-> 20]}

\* the builds: u64 (which never overflows on the modelled values, so one
\* profile stands for both) and the narrow Uint with and without overflow checks
Builds ==
  {[bits |-> UintBits, checks |-> TRUE],
   [bits |-> NarrowBits, checks |-> TRUE],
   [bits |-> NarrowBits, checks |-> FALSE]}

PoolsOf(b) == IF b.bits = UintBits THEN {story_example_pool} ELSE NarrowPools

UintValues(S) == IF Narrow THEN {x \in S : x < Modulus} ELSE S

AddArgs ==
  IF Narrow THEN {0, 1, 3, 100, Modulus - 1} ELSE {0, 10000000, 100000000}
SwapArgs ==
  IF Narrow THEN {0, 1, 2, 30, Modulus - 1} ELSE {0, 6000000, 30000000}
RemoveArgs ==
  UintValues((IF Narrow THEN {0, 1} ELSE {0, 109999100})
             \cup {lp_token_amount, lp_token_amount + 1}
             \cup (IF last.op = "add_liquidity" /\ last.status = "Ok"
                     THEN {last.out} ELSE {}))
FeeArgs ==
  {0, liquidity_target \div 2, liquidity_target}
    \cup (IF Narrow THEN {Modulus \div 2} ELSE {2 * liquidity_target})

\* the calls of tests::story_example, in order
StoryCalls ==
  << <<"add_liquidity", 100000000>>, <<"swap", 6000000>>,
     <<"add_liquidity", 10000000>>, <<"swap", 30000000>>,
     <<"remove_liquidity", 109999100>> >>

----------------------------------------------------------------------------
(* The state machine *)

\* pub fn init
Init ==
  /\ \E b \in Builds :
       /\ uint_bits = b.bits
       /\ overflow_checks = b.checks
       /\ \E c \in PoolsOf(b) :
            /\ price = c.price
            /\ min_fee = c.min_fee
            /\ max_fee = c.max_fee
            /\ liquidity_target = c.liquidity_target
  /\ token_amount = 0
  /\ st_token_amount = 0
  /\ lp_token_amount = 0
  /\ panicked = FALSE
  /\ last = [op |-> "init", arg |-> 0, status |-> "Ok", out |-> 0, out2 |-> 0,
             pre_token |-> 0, pre_st |-> 0, pre_lp |-> 0,
             ovf |-> FALSE, unf |-> FALSE, dz |-> FALSE]
  /\ calls = 0
  /\ story = 0

CallLimit == IF Narrow THEN MaxCalls ELSE MaxWideCalls

\* one call of op(arg) with outcome o on the pool
Call(op, arg, o) ==
  /\ ~panicked
  /\ o.status = "Ok" => calls < CallLimit
  /\ token_amount' = o.token
  /\ st_token_amount' = o.st
  /\ lp_token_amount' = o.lp
  /\ panicked' = (o.status = "Panic")
  /\ last' = [op |-> op, arg |-> arg, status |-> o.status, out |-> o.out,
              out2 |-> o.out2, pre_token |-> token_amount,
              pre_st |-> st_token_amount, pre_lp |-> lp_token_amount,
              ovf |-> o.ovf, unf |-> o.unf, dz |-> o.dz]
  /\ calls' = IF o.status = "Ok" THEN calls + 1 ELSE calls
  /\ story' = IF story >= 0 /\ story < Len(StoryCalls)
                 /\ StoryCalls[story + 1] = <<op, arg>>
                THEN story + 1 ELSE -1
  /\ UNCHANGED <<price, liquidity_target, min_fee, max_fee, build>>

AddLiquidity ==
  \E x \in AddArgs : \E o \in {add_liquidity(x)} : Call("add_liquidity", x, o)

RemoveLiquidity ==
  \E x \in RemoveArgs : \E o \in {remove_liquidity(x)} : Call("remove_liquidity", x, o)

Swap ==
  \E x \in SwapArgs : \E o \in {swap(x)} : Call("swap", x, o)

\* fn fee called on the pool as tests::can_calculate_fees does: a query
Fee ==
  \E a \in FeeArgs : \E f \in {fee(a)} :
       /\ ~panicked
       /\ panicked' = f.panic
       /\ last' = [op |-> "fee", arg |-> a,
                   status |-> IF f.panic THEN "Panic" ELSE "Ok",
                   out |-> f.v, out2 |-> 0, pre_token |-> token_amount,
                   pre_st |-> st_token_amount, pre_lp |-> lp_token_amount,
                   ovf |-> f.ovf, unf |-> f.unf, dz |-> f.dz]
       /\ story' = -1
       /\ UNCHANGED <<pool, build, calls>>

Next == AddLiquidity \/ RemoveLiquidity \/ Swap \/ Fee

Spec == Init /\ [][Next]_vars

----------------------------------------------------------------------------
(* Properties *)

\* C1: a call of add_liquidity, remove_liquidity or swap that returns an
\* error leaves all seven fields of the pool equal to their pre-call values.
C1_FailureAtomicity == [][last'.status \in Errors => pool' = pool]_vars

\* an overflow error returned by a pool that holds reserves and LP tokens
C1_Witness ==
  /\ last.status \in {"TokenAmountTooBig", "WithdrawCalculationOverflow"}
  /\ token_amount > 0
  /\ lp_token_amount > 0

\* C2: after any sequence of successful calls, lp_token_amount = 0 if and
\* only if token_amount = 0 and st_token_amount = 0.
C2_LpZeroIffReservesZero ==
  ~panicked => ((lp_token_amount = 0) <=> (token_amount = 0 /\ st_token_amount = 0))

\* C3: every multiplication and addition of add_liquidity, remove_liquidity
\* and swap either fits in Uint or makes the call return TokenAmountTooBig or
\* WithdrawCalculationOverflow; none wraps and none traps.
C3_NoUnreportedOverflow ==
  last.op \in {"add_liquidity", "remove_liquidity", "swap"} => ~last.ovf

\* the pool was initialised with min_fee <= max_fee <= 100% and a target > 0
SaneParameters == min_fee <= max_fee /\ max_fee <= SCALE /\ liquidity_target > 0

\* C4: in a pool with sane parameters no subtraction of swap, fee or
\* remove_liquidity has a subtrahend greater than its minuend.
C4_NoSubtractionUnderflow == SaneParameters => ~last.unf

\* a swap whose pre-fee amount is the whole reserve: token_amount minus the
\* pre-fee amount is exactly zero
C4_Witness ==
  /\ SaneParameters
  /\ last.op = "swap"
  /\ last.status = "Ok"
  /\ last.pre_token > 0
  /\ FloorMulDiv(last.arg, price, SCALE) = last.pre_token

\* the pool of the end-to-end scenario, in the u64 build
StoryPool ==
  /\ uint_bits = UintBits
  /\ [price |-> price, min_fee |-> min_fee, max_fee |-> max_fee,
      liquidity_target |-> liquidity_target] = story_example_pool

\* C5: from init with price 1_500_000, target 90_000_000 and fees 1_000 ..
\* 90_000, the calls add_liquidity(100_000_000), swap(6_000_000),
\* add_liquidity(10_000_000), swap(30_000_000), remove_liquidity(109_999_100)
\* return Ok with 100_000_000, 8_991_000, 9_999_100, 43_442_370 and
\* (57_566_630, 36_000_000), and leave the three balances at zero.
C5_StoryExample ==
  StoryPool =>
    /\ story = 1 => last.status = "Ok" /\ last.out = 100000000
    /\ story = 2 => last.status = "Ok" /\ last.out = 8991000
    /\ story = 3 => last.status = "Ok" /\ last.out = 9999100
    /\ story = 4 => last.status = "Ok" /\ last.out = 43442370
    /\ story = 5 => /\ last.status = "Ok"
                    /\ last.out = 57566630
                    /\ last.out2 = 36000000
                    /\ token_amount = 0
                    /\ st_token_amount = 0
                    /\ lp_token_amount = 0

\* the five calls of the scenario have been made, in order, from init
C5_Witness == StoryPool /\ story = 5

\* C6: with min_fee <= max_fee and a target > 0, fee(0) = max_fee, fee(a) =
\* min_fee for every a >= liquidity_target, fee is non-increasing in its
\* argument, and min_fee <= fee(a) <= max_fee for every a.
C6_FeeCurve ==
  (min_fee <= max_fee /\ liquidity_target > 0 /\ last.op = "fee") =>
    /\ last.status = "Ok"
    /\ last.arg = 0 => last.out = max_fee
    /\ last.arg >= liquidity_target => last.out = min_fee
    /\ min_fee <= last.out /\ last.out <= max_fee
    /\ \A b \in FeeArgs :
         (b >= last.arg /\ ~fee(b).panic) => fee(b).v <= last.out

\* a * b >= c * d and a * b > c * d on the mathematical products, compared
\* limb by limb in base 2^29 (every modelled value is below 2^30)
Limb == Pow(2, 29)
ProductGeq(a, b, c, d) ==
  LET x == MulDivMod(a, b, Limb)
      y == MulDivMod(c, d, Limb)
  IN x[1] > y[1] \/ (x[1] = y[1] /\ x[2] >= y[2])
ProductGt(a, b, c, d) == ~ProductGeq(c, d, a, b)

\* the value of the pool in tokens, token_amount + floor(st_token_amount *
\* price / SCALE), before and after the last call
ValueBefore == last.pre_token + FloorMulDiv(last.pre_st, price, SCALE)
ValueAfter == token_amount + FloorMulDiv(st_token_amount, price, SCALE)

\* C7: a successful add_liquidity into a pool with LP tokens outstanding does
\* not decrease the pool value per LP token: value_after * lp_before >=
\* value_before * lp_after; and it keeps it up to the truncation of the
\* minted amount: value_before * (lp_after + 1) > value_after * lp_before.
C7_NoDilution ==
  (last.op = "add_liquidity" /\ last.status = "Ok" /\ last.pre_lp > 0) =>
    /\ ProductGeq(ValueAfter, last.pre_lp, ValueBefore, lp_token_amount)
    /\ ProductGt(ValueBefore, lp_token_amount + 1, ValueAfter, last.pre_lp)

\* C8: when add_liquidity(x) succeeds and mints m LP tokens, an immediately
\* following successful remove_liquidity(m) returns (token_out, staked_out)
\* with token_out <= x and token_out + floor(staked_out * price / SCALE) <= x.
C8_RoundTripBound ==
  [][(/\ last.op = "add_liquidity"
      /\ last.status = "Ok"
      /\ last'.op = "remove_liquidity"
      /\ last'.arg = last.out
      /\ last'.status = "Ok")
     => /\ last'.out <= last.arg
        /\ last'.out + FloorMulDiv(last'.out2, price, SCALE) <= last.arg]_vars

\* C9: add_liquidity(x) with x > 0 mints exactly x when no LP tokens are
\* outstanding, and otherwise, when lp_token_amount * x fits in Uint, mints
\* floor(lp_token_amount * x / total_val) with total_val = token_amount +
\* floor(st_token_amount * price / SCALE); on success token_amount grows by
\* exactly x, lp_token_amount by exactly the minted amount, and
\* st_token_amount is unchanged.
C9_MintingRule ==
  (last.op = "add_liquidity" /\ last.arg > 0) =>
    /\ last.pre_lp = 0 => last.status = "Ok" /\ last.out = last.arg
    /\ (last.pre_lp > 0 /\ ~MulOverflows(last.pre_lp, last.arg)) =>
         /\ last.status = "Ok"
         /\ ValueBefore > 0
         /\ last.out = FloorMulDiv(last.pre_lp, last.arg, ValueBefore)
    /\ last.status = "Ok" =>
         /\ token_amount = last.pre_token + last.arg
         /\ lp_token_amount = last.pre_lp + last.out
         /\ st_token_amount = last.pre_st

\* C10: a successful remove_liquidity(l) returns floor(token_amount * l /
\* lp_token_amount) and floor(st_token_amount * l / lp_token_amount) of the
\* pre-call balances, and the three balances decrease by exactly these
\* amounts and by l; removing the whole supply returns both reserves in full
\* and leaves the three balances at zero.
C10_ProRataRedemption ==
  (last.op = "remove_liquidity" /\ last.status = "Ok") =>
    /\ last.pre_lp > 0
    /\ last.out = FloorMulDiv(last.pre_token, last.arg, last.pre_lp)
    /\ last.out2 = FloorMulDiv(last.pre_st, last.arg, last.pre_lp)
    /\ token_amount = last.pre_token - last.out
    /\ st_token_amount = last.pre_st - last.out2
    /\ lp_token_amount = last.pre_lp - last.arg
    /\ last.arg = last.pre_lp =>
         /\ last.out = last.pre_token
         /\ last.out2 = last.pre_st
         /\ token_amount = 0
         /\ st_token_amount = 0
         /\ lp_token_amount = 0

\* a partial redemption that pays out of both reserves, in a build that
\* traps on overflow (so that no earlier call has wrapped)
C10_Witness ==
  /\ overflow_checks
  /\ last.op = "remove_liquidity"
  /\ last.status = "Ok"
  /\ last.arg < last.pre_lp
  /\ last.out > 0
  /\ last.out2 > 0

\* fee as the specification defines it, on the mathematical integers:
\* max(max_fee - min((max_fee - min_fee) * a / target, max_fee), min_fee).
\* The quotient is formed only when it is below max_fee, that is when
\* (max_fee - min_fee) * a < max_fee * target; otherwise the min is max_fee.
FeeOf(a) ==
  IF ProductGeq(max_fee - min_fee, a, max_fee, liquidity_target)
    THEN Max(0, min_fee)
    ELSE Max(max_fee - FloorMulDiv(max_fee - min_fee, a, liquidity_target), min_fee)

\* floor(s * price / SCALE), the value of s staked tokens before the fee
PreFee(s) == FloorMulDiv(s, price, SCALE)

\* C11: every successful swap(s) returns floor(pre_fee * (SCALE - f) / SCALE)
\* with pre_fee = floor(s * price / SCALE) and f = fee(token_amount - pre_fee);
\* afterwards token_amount has decreased by exactly the returned amount and
\* st_token_amount has increased by exactly s.
C11_SwapAccounting ==
  (last.op = "swap" /\ last.status = "Ok") =>
    /\ PreFee(last.arg) <= last.pre_token
    /\ last.out = FloorMulDiv(PreFee(last.arg),
                              SCALE - FeeOf(last.pre_token - PreFee(last.arg)), SCALE)
    /\ token_amount = last.pre_token - last.out
    /\ st_token_amount = last.pre_st + last.arg

\* C12: for every s > 0, swap(s) fails with PoolNotEnoughTokens{token_amount =
\* pre_fee, pool_capacity = the current token_amount} exactly when pre_fee =
\* floor(s * price / SCALE) exceeds the current token_amount, and succeeds
\* when pre_fee <= token_amount.
C12_SufficiencyOnPreFee ==
  (last.op = "swap" /\ last.arg > 0) =>
    IF PreFee(last.arg) > last.pre_token
      THEN /\ last.status = "PoolNotEnoughTokens"
           /\ last.out = PreFee(last.arg)
           /\ last.out2 = last.pre_token
      ELSE last.status = "Ok"

\* C13: remove_liquidity(x) with x > lp_token_amount fails with
\* NotEnoughTokens{withdraw_amount = x, pool_capacity = lp_token_amount} and
\* leaves the pool unchanged, also when no LP tokens are outstanding.
C13_RemoveMoreThanSupply ==
  [][(last'.op = "remove_liquidity" /\ last'.arg > lp_token_amount) =>
       /\ last'.status = "NotEnoughTokens"
       /\ last'.out = last'.arg
       /\ last'.out2 = lp_token_amount
       /\ pool' = pool]_vars

\* a withdrawal of more than the supply from a pool that holds LP tokens and
\* both reserves
C13_Witness ==
  /\ last.op = "remove_liquidity"
  /\ last.arg > last.pre_lp
  /\ last.pre_lp > 0
  /\ token_amount > 0
  /\ st_token_amount > 0

\* C14: in every pool state add_liquidity(0) fails with NoTokensProvided and
\* swap(0) fails with ZeroTokensAsArgument, and the pool is unchanged.
C14_ZeroRejected ==
  [][/\ (last'.op = "add_liquidity" /\ last'.arg = 0) =>
          (last'.status = "NoTokensProvided" /\ pool' = pool)
     /\ (last'.op = "swap" /\ last'.arg = 0) =>
          (last'.status = "ZeroTokensAsArgument" /\ pool' = pool)]_vars

\* swap(0) on a pool that holds tokens, where the sufficiency check would
\* pass
C14_Witness ==
  /\ last.op = "swap"
  /\ last.arg = 0
  /\ token_amount > 0
  /\ lp_token_amount > 0

\* C15: whenever swap(s) returns Ok(amount_out), amount_out > 0.
C15_SwapPaysSomething ==
  (last.op = "swap" /\ last.status = "Ok") => last.out > 0

\* C16: in every state with token_amount = 0, swap(s) returns an error for
\* every staked amount s, at every price.
C16_EmptyPoolSwapFails ==
  (last.op = "swap" /\ last.pre_token = 0) => last.status \in Errors

\* C17: in every state with token_amount > 0 and st_token_amount > 0, every
\* successful remove_liquidity(l) returns token_out > 0 and staked_out > 0.
C17_RemovePaysBothAssets ==
  (/\ last.op = "remove_liquidity"
   /\ last.status = "Ok"
   /\ last.pre_token > 0
   /\ last.pre_st > 0) => (last.out > 0 /\ last.out2 > 0)

\* C18: a call of swap, successful or failing, never changes lp_token_amount
\* (only add_liquidity and remove_liquidity do); and no call changes price,
\* min_fee, max_fee or liquidity_target.
C18_Frame ==
  [][/\ last'.op \in {"swap", "fee"} => lp_token_amount' = lp_token_amount
     /\ <<price, min_fee, max_fee, liquidity_target>>'
          = <<price, min_fee, max_fee, liquidity_target>>]_vars

\* a successful swap on a pool with LP tokens outstanding
C18_Witness ==
  /\ last.op = "swap"
  /\ last.status = "Ok"
  /\ last.out > 0
  /\ lp_token_amount > 0

\* C19: in a pool initialised with liquidity_target > 0 no call divides by
\* zero, whatever the state and the argument: the divisors lp_token_amount of
\* remove_liquidity, total_val() of add_liquidity and liquidity_target of fee
\* are non-zero whenever the division is executed.
C19_NoDivisionByZero == liquidity_target > 0 => ~last.dz

\* C20: in a pool with min_fee <= max_fee <= 100% and a target > 0, every
\* successful swap leaves total_val = token_amount + floor(st_token_amount *
\* price / SCALE) greater than or equal to its value before the call.
C20_SwapKeepsValue ==
  (SaneParameters /\ last.op = "swap" /\ last.status = "Ok") =>
    ValueAfter >= ValueBefore

====
